---------------------------- MODULE Spec2Model ----------------------------
(***************************************************************************)
(* A model of redgoldlace/conway: the grid engine (src/src/world.rs,       *)
(* src/src/cell.rs) and the three-mode session (src/src/app.rs).           *)
(*                                                                         *)
(* Two specifications share the module:                                    *)
(*   SpecWorld  a World is constructed, queried (get, has_live_neighbor)   *)
(*              and ticked;                                                *)
(*   Spec       the session of App::run: one State::update per step.       *)
(***************************************************************************)
EXTENDS Integers, Sequences, FiniteSets, TLC

VARIABLES
    state,      \* app.rs: App.state, the State enum (a record with a tag)
    old,        \* the State that the last State::update consumed
    message,    \* the Option<Event> handed to the last State::update
    hist,       \* history: what Scale and Draw held on Enter, passes simulated
    world,      \* world.rs: the World under test
    prev,       \* the World that the last tick() consumed
    first,      \* the World as constructed
    ticks,      \* the number of tick() calls applied to first
    call,       \* the last operation called on world, with its arguments
    ret         \* what that call returned

appVars == <<state, old, message, hist>>
worldVars == <<world, prev, first, ticks, call, ret>>
vars == <<state, old, message, hist, world, prev, first, ticks, call, ret>>

---------------------------------------------------------------------------
(* Bounds of the model *)

\* widest and tallest World that SpecWorld constructs with free contents
MaxWidth == 3
MaxHeight == 3
\* most cells in a World that SpecWorld constructs with free contents
MaxCells == 9
\* side of the square World that holds the glider
GliderDim == 10
\* most tick() calls applied to one World in SpecWorld
MaxTicks == 4
\* largest width and height that Scale is grown to in Spec
MaxScale == 9
\* widest and tallest World that Spec takes from Scale into Draw
MaxDrawWidth == 2
MaxDrawHeight == 2
\* last generation that Simulate is run to in Spec
MaxGeneration == 2

(* Constants of the program *)

\* app.rs, App::new: the Scale that the session starts with
DefaultWidth == 8
DefaultHeight == 8

---------------------------------------------------------------------------
(* Option<T> and panics *)

None == [tag |-> "None"]
Some(v) == [tag |-> "Some", value |-> v]
Unwrap(o) == o.value

\* the value of a computation that panicked (unwrap on None, division by zero)
Panic == [tag |-> "Panic"]

---------------------------------------------------------------------------
(* cell.rs *)

Cell == {"Dead", "Alive"}

alive(cell) == cell = "Alive"

\* Cell::flipped that brings every cell to life
flippedAlive(cell) == "Alive"

flipped(cell) == IF cell = "Dead" THEN "Alive" ELSE "Dead"

PositionAll ==
    <<"TopLeft", "Top", "TopRight", "Left", "Right",
      "BottomLeft", "Bottom", "BottomRight">>

offset(position) ==
    CASE position = "TopLeft"     -> <<-1, -1>>
      [] position = "Top"         -> <<0, -1>>
      [] position = "TopRight"    -> <<1, -1>>
      [] position = "Left"        -> <<-1, 0>>
      [] position = "Right"       -> <<1, 0>>
      [] position = "BottomLeft"  -> <<-1, 1>>
      [] position = "Bottom"      -> <<0, 1>>
      [] position = "BottomRight" -> <<1, 1>>

---------------------------------------------------------------------------
(* world.rs: World.  cells is the boxed slice; slot n of the slice is      *)
(* cells[n + 1].                                                           *)

WorldNew(width, height) ==
    [width |-> width, height |-> height,
     cells |-> [n \in 1..(width * height) |-> "Dead"]]

\* impl WorldIndex for usize
to_index_usize(index, w) ==
    IF index < w.width * w.height THEN Some(index) ELSE None

\* impl WorldIndex for (usize, usize)
to_index(pos, w) == to_index_usize(pos[2] * w.width + pos[1], w)

\* World::get with a (usize, usize)
get(w, pos) ==
    LET index == to_index(pos, w)
    IN  IF index = None THEN None ELSE Some(w.cells[Unwrap(index) + 1])

\* World::get with a usize
get_usize(w, i) ==
    LET index == to_index_usize(i, w)
    IN  IF index = None THEN None ELSE Some(w.cells[Unwrap(index) + 1])

\* *w.get_mut(pos).unwrap() = cell: the World after the write, or Panic
set_mut(w, pos, cell) ==
    LET index == to_index(pos, w)
    IN  IF index = None
        THEN Panic
        ELSE [w EXCEPT !.cells[Unwrap(index) + 1] = cell]

has_live_neighbor(w, pos, position) ==
    LET new_x == pos[1] + offset(position)[1]
        new_y == pos[2] + offset(position)[2]
    IN  IF new_x < 0 \/ new_y < 0
        THEN FALSE
        ELSE LET c == get(w, <<new_x, new_y>>)
             IN  IF c = None THEN FALSE ELSE alive(Unwrap(c))

RECURSIVE SumNeighbors(_, _, _)
SumNeighbors(w, pos, k) ==
    IF k = 0
    THEN 0
    ELSE SumNeighbors(w, pos, k - 1)
         + (IF has_live_neighbor(w, pos, PositionAll[k]) THEN 1 ELSE 0)

\* World::live_neighbors that leaves the last Position out
live_neighborsButLast(w, pos) == SumNeighbors(w, pos, Len(PositionAll) - 1)

live_neighbors(w, pos) == SumNeighbors(w, pos, Len(PositionAll))

\* WorldIterator::next with the two coordinates of the position exchanged
IteratorNextTransposed(w, index) ==
    IF w.width = 0
    THEN Panic
    ELSE LET position == <<index \div w.width, index % w.width>>
             c == get_usize(w, index)
         IN  IF c = None
             THEN None
             ELSE Some([position |-> position, state |-> Unwrap(c)])

\* WorldIterator::next at self.index = index: Panic, None, or
\* Some(LocatedCell); the position is computed before the lookup
IteratorNext(w, index) ==
    IF w.width = 0
    THEN Panic
    ELSE LET position == <<index % w.width, index \div w.width>>
             c == get_usize(w, index)
         IN  IF c = None
             THEN None
             ELSE Some([position |-> position, state |-> Unwrap(c)])

\* the match of tick() with an Alive cell surviving on 2 neighbours only
RuleStarved(cell, neighbors) ==
    IF cell = "Alive"
    THEN (IF neighbors = 2 THEN "Alive" ELSE "Dead")
    ELSE (IF neighbors = 3 THEN "Alive" ELSE "Dead")

\* the match of tick(): the next state of a cell
NewState(cell, neighbors) ==
    IF cell = "Alive"
    THEN (IF 2 <= neighbors /\ neighbors <= 3 THEN "Alive" ELSE "Dead")
    ELSE (IF neighbors = 3 THEN "Alive" ELSE "Dead")

\* one pass of the loop body of tick(), counting on the World being written
TickBodyInPlace(self, new, item) ==
    set_mut(new, item.position,
            NewState(Unwrap(get(new, item.position)),
                     live_neighbors(new, item.position)))

\* one pass of the loop body of tick(): the World `new` after the write
TickBody(self, new, item) ==
    set_mut(new, item.position,
            NewState(item.state, live_neighbors(self, item.position)))

\* the for loop of tick(), from iterator index `index` on, for at most `fuel`
\* passes: the loop's state when it ended (done, panic) or ran out of fuel.
\* (v \in {e} binds v to the value of e, so that e is computed once.)
RECURSIVE TickLoop(_, _, _, _)
TickLoop(self, new, index, fuel) ==
    IF fuel = 0
    THEN [tag |-> "more", new |-> new, index |-> index]
    ELSE LET item == IteratorNext(self, index)
         IN  IF item = Panic
             THEN [tag |-> "panic", new |-> new, index |-> index]
             ELSE IF item = None
             THEN [tag |-> "done", new |-> new, index |-> index]
             ELSE CHOOSE r \in
                    { IF written = Panic
                      THEN [tag |-> "panic", new |-> new, index |-> index]
                      ELSE TickLoop(self, written, next, fuel - 1)
                      : <<written, next>> \in
                            {<<TickBody(self, new, Unwrap(item)), index + 1>>} }
                    : TRUE

\* the same loop run to its end, a row's worth of passes at a time (the
\* passes are the loop's own, in its order; only the evaluation is staged)
RECURSIVE TickRun(_, _)
TickRun(self, st) ==
    CHOOSE out \in
        { IF r.tag = "more" THEN TickRun(self, r) ELSE r
          : r \in {TickLoop(self, st.new, st.index, self.width + 1)} }
        : TRUE

\* World::tick: the next World, or Panic
tick(self) ==
    LET r == TickRun(self, [tag |-> "more", new |-> self, index |-> 0])
    IN  IF r.tag = "panic" THEN Panic ELSE r.new

---------------------------------------------------------------------------
(* SpecWorld: a World is constructed, then queried and ticked *)

\* every World of at most MaxWidth x MaxHeight and at most MaxCells cells
SmallWorlds ==
    UNION {
        { [width |-> w, height |-> h, cells |-> c] : c \in [1..(w * h) -> Cell] }
        : <<w, h>> \in { d \in (0..MaxWidth) \X (0..MaxHeight) :
                            d[1] * d[2] <= MaxCells } }

\* the five cells of the standard glider, relative to its 3x3 box
GliderCells == { <<1, 0>>, <<2, 1>>, <<0, 2>>, <<1, 2>>, <<2, 2>> }

\* the four cells of the block, relative to its 2x2 box
BlockCells == { <<0, 0>>, <<1, 0>>, <<0, 1>>, <<1, 1>> }

\* the all-Dead w x h World with the cells of `shape` moved by (ox, oy) Alive
Placed(w, h, shape, ox, oy) ==
    [width |-> w, height |-> h,
     cells |-> [n \in 1..(w * h) |->
        IF <<((n - 1) % w) - ox, ((n - 1) \div w) - oy>> \in shape
        THEN "Alive" ELSE "Dead"]]

\* the box origins from which the glider stays off the border for 4 ticks
GliderOrigins == 1..(GliderDim - 5)

GliderWorlds ==
    { Placed(GliderDim, GliderDim, GliderCells, ox, oy) :
        ox \in GliderOrigins, oy \in GliderOrigins }

NoCall == [op |-> "new", pos |-> <<0, 0>>, position |-> "-"]

\* the history before any Enter: no size chosen, no World handed over
NoHist ==
    [size |-> <<0, 0>>,
     handed |-> [width |-> 0, height |-> 0, cells |-> <<>>],
     passes |-> 0,
     fold |-> <<0, 0>>]

\* the session's variables, at rest while a World is exercised
AppIdle ==
    /\ state = [tag |-> "Idle"]
    /\ old = [tag |-> "Idle"]
    /\ message = [kind |-> "None", code |-> "-", ctrl |-> FALSE]
    /\ hist = NoHist

InitWorld ==
    /\ AppIdle
    /\ world \in SmallWorlds \cup GliderWorlds
    /\ prev = world
    /\ first = world
    /\ ticks = 0
    /\ call = NoCall
    /\ ret = None

\* the positions a query is tried on: the World's own and a margin around
QueryPositions(w) == (0..(w.width + 1)) \X (0..(w.height + 1))

InBounds(w) == { p \in QueryPositions(w) : p[1] < w.width /\ p[2] < w.height }

\* the last call was a tick() that panicked: the process is gone
Panicked == call.op = "tick" /\ ret = Panic

\* a query leaves the World as it is: one query is tried on each World that
\* was constructed, and tick() goes on from the World itself
CallGet ==
    /\ call.op = "new"
    /\ \E pos \in QueryPositions(world) :
        /\ call' = [op |-> "get", pos |-> pos, position |-> "-"]
        /\ ret' = get(world, pos)
    /\ UNCHANGED <<world, prev, first, ticks, appVars>>

CallHasLiveNeighbor ==
    /\ call.op = "new"
    /\ \E pos \in InBounds(world), k \in DOMAIN PositionAll :
        /\ call' = [op |-> "has_live_neighbor", pos |-> pos,
                    position |-> PositionAll[k]]
        /\ ret' = has_live_neighbor(world, pos, PositionAll[k])
    /\ UNCHANGED <<world, prev, first, ticks, appVars>>

CallLiveNeighbors ==
    /\ call.op = "new"
    /\ \E pos \in InBounds(world) :
        /\ call' = [op |-> "live_neighbors", pos |-> pos, position |-> "-"]
        /\ ret' = live_neighbors(world, pos)
    /\ UNCHANGED <<world, prev, first, ticks, appVars>>

\* WorldIterator::new, with what the iterator has yielded so far and whether
\* it has returned None
IteratorNew == [tag |-> "Iter", index |-> 0, items |-> <<>>, ended |-> FALSE]

\* one call of next() on an iterator over the World, until it returns None
CallIteratorNext ==
    /\ call.op \in {"new", "next"}
    /\ call.op = "next" => (ret.tag = "Iter" /\ ~ret.ended)
    /\ LET it == IF call.op = "new" THEN IteratorNew ELSE ret
           item == IteratorNext(world, it.index)
       IN  ret' = IF item = Panic
                  THEN Panic
                  ELSE IF item = None
                  THEN [it EXCEPT !.ended = TRUE]
                  ELSE [it EXCEPT !.index = @ + 1,
                                  !.items = Append(@, Unwrap(item))]
    /\ call' = [op |-> "next", pos |-> <<0, 0>>, position |-> "-"]
    /\ UNCHANGED <<world, prev, first, ticks, appVars>>

CallTick ==
    /\ call.op \in {"new", "tick"}
    /\ ticks < MaxTicks
    /\ ~Panicked
    /\ LET new == tick(world)
       IN  /\ ret' = new
           /\ world' = IF new = Panic THEN world ELSE new
    /\ prev' = world
    /\ ticks' = ticks + 1
    /\ call' = [op |-> "tick", pos |-> <<0, 0>>, position |-> "-"]
    /\ UNCHANGED <<first, appVars>>

NextWorld == CallGet \/ CallHasLiveNeighbor \/ CallLiveNeighbors
             \/ CallIteratorNext \/ CallTick

SpecWorld == InitWorld /\ [][NextWorld]_vars

---------------------------------------------------------------------------
(* app.rs: the messages.  A message is the Option<Event> that App::run     *)
(* polled: no event (the poll timed out), an event that is no key press,   *)
(* or a key press with its code and whether CONTROL is among its modifiers.*)

\* KeyCode: c is Char('c'), Space is Char(' '), Esc stands for the rest
KeyCodes == {"Up", "Down", "Left", "Right", "Enter", "Space", "c", "Esc"}

NoEvent == [kind |-> "None", code |-> "-", ctrl |-> FALSE]
Resize == [kind |-> "Resize", code |-> "-", ctrl |-> FALSE]
Key(code, ctrl) == [kind |-> "Key", code |-> code, ctrl |-> ctrl]

Messages ==
    {NoEvent, Resize}
    \cup { Key(code, FALSE) : code \in KeyCodes }
    \cup { Key("c", TRUE), Key("Up", TRUE) }

\* the test of State::update: a key press of Ctrl + c
IsCtrlC(msg) == msg.kind = "Key" /\ msg.ctrl /\ msg.code = "c"

Max(a, b) == IF a >= b THEN a ELSE b
Min(a, b) == IF a <= b THEN a ELSE b

\* a value of a computation that may panic
Ok(v) == [tag |-> "Ok", value |-> v]

\* a - b on usize: Ok(a - b), or Panic: b > a overflows, which panics where
\* overflow is checked and elsewhere wraps to a value beyond every bound of
\* this model
sub_usize(a, b) == IF a >= b THEN Ok(a - b) ELSE Panic

---------------------------------------------------------------------------
(* app.rs: the State enum and the update of each of its variants.  An      *)
(* update is the State it returns, or Panic.                               *)

Exit == [tag |-> "Exit"]

ScaleState(width, height, updated) ==
    [tag |-> "Scale", width |-> width, height |-> height, updated |-> updated]

DrawState(x, y, w) == [tag |-> "Draw", x |-> x, y |-> y, world |-> w]

SimulateState(generation, w) ==
    [tag |-> "Simulate", generation |-> generation, world |-> w]

\* the arms of the match of Scale::update with Up and Down exchanged
ScaleSizeUpGrows(self, code) ==
    LET up == sub_usize(self.height, 1)
        left == sub_usize(self.width, 1)
    IN  CASE code = "Down" ->
                IF up = Panic
                THEN Panic
                ELSE Ok(<<self.width, Max(up.value, 1)>>)
          [] code = "Up" -> Ok(<<self.width, self.height + 1>>)
          [] code = "Left" ->
                IF left = Panic
                THEN Panic
                ELSE Ok(<<Max(left.value, 1), self.height>>)
          [] code = "Right" -> Ok(<<self.width + 1, self.height>>)
          [] OTHER -> Ok(<<self.width, self.height>>)

\* the arms of the match of Scale::update without their .max(1)
ScaleSizeNoFloor(self, code) ==
    LET up == sub_usize(self.height, 1)
        left == sub_usize(self.width, 1)
    IN  CASE code = "Up" ->
                IF up = Panic THEN Panic ELSE Ok(<<self.width, up.value>>)
          [] code = "Down" -> Ok(<<self.width, self.height + 1>>)
          [] code = "Left" ->
                IF left = Panic THEN Panic ELSE Ok(<<left.value, self.height>>)
          [] code = "Right" -> Ok(<<self.width + 1, self.height>>)
          [] OTHER -> Ok(<<self.width, self.height>>)

\* the match of Scale::update on the key: Ok(<<width, height>>), or Panic
ScaleSize(self, code) ==
    LET up == sub_usize(self.height, 1)
        left == sub_usize(self.width, 1)
    IN  CASE code = "Up" ->
                IF up = Panic
                THEN Panic
                ELSE Ok(<<self.width, Max(up.value, 1)>>)
          [] code = "Down" -> Ok(<<self.width, self.height + 1>>)
          [] code = "Left" ->
                IF left = Panic
                THEN Panic
                ELSE Ok(<<Max(left.value, 1), self.height>>)
          [] code = "Right" -> Ok(<<self.width + 1, self.height>>)
          [] OTHER -> Ok(<<self.width, self.height>>)

\* Scale::update building the World with width and height exchanged
ScaleUpdateSwapped(self, msg) ==
    IF msg.kind # "Key"
    THEN self
    ELSE LET updated == msg.code \in {"Up", "Down", "Left", "Right"}
             size == ScaleSize(self, msg.code)
         IN  IF size = Panic
             THEN Panic
             ELSE IF msg.code = "Enter"
             THEN DrawState(0, 0, WorldNew(size.value[2], size.value[1]))
             ELSE ScaleState(size.value[1], size.value[2], updated)

ScaleUpdate(self, msg) ==
    IF msg.kind # "Key"
    THEN self
    ELSE LET updated == msg.code \in {"Up", "Down", "Left", "Right"}
             size == ScaleSize(self, msg.code)
         IN  IF size = Panic
             THEN Panic
             ELSE IF msg.code = "Enter"
             THEN DrawState(0, 0, WorldNew(size.value[1], size.value[2]))
             ELSE ScaleState(size.value[1], size.value[2], updated)

\* the cursor arms of the match of Draw::update without their .min(..)
DrawCursorNoClamp(self, code) ==
    CASE code = "Up" -> Ok(<<self.x, Max(self.y - 1, 0)>>)
      [] code = "Down" -> Ok(<<self.x, self.y + 1>>)
      [] code = "Left" -> Ok(<<Max(self.x - 1, 0), self.y>>)
      [] code = "Right" -> Ok(<<self.x + 1, self.y>>)
      [] OTHER -> Ok(<<self.x, self.y>>)

\* the cursor of Draw::update after the key: Ok(<<x, y>>), or Panic
DrawCursor(self, code) ==
    LET bottom == sub_usize(self.world.height, 1)
        right == sub_usize(self.world.width, 1)
    IN  CASE code = "Up" -> Ok(<<self.x, Max(self.y - 1, 0)>>)
          [] code = "Down" ->
                IF bottom = Panic
                THEN Panic
                ELSE Ok(<<self.x, Min(self.y + 1, bottom.value)>>)
          [] code = "Left" -> Ok(<<Max(self.x - 1, 0), self.y>>)
          [] code = "Right" ->
                IF right = Panic
                THEN Panic
                ELSE Ok(<<Min(self.x + 1, right.value), self.y>>)
          [] OTHER -> Ok(<<self.x, self.y>>)

\* the World of Draw::update after the key, or Panic
\* the World of Draw::update where Space flips the cell at (0, 0)
DrawWorldFlipsOrigin(self, code) ==
    IF code = "Space"
    THEN LET c == get(self.world, <<0, 0>>)
         IN  IF c = None
             THEN Panic
             ELSE set_mut(self.world, <<0, 0>>, flipped(Unwrap(c)))
    ELSE self.world

DrawWorld(self, code) ==
    IF code = "Space"
    THEN LET c == get(self.world, <<self.x, self.y>>)
         IN  IF c = None
             THEN Panic
             ELSE set_mut(self.world, <<self.x, self.y>>, flipped(Unwrap(c)))
    ELSE self.world

\* Draw::update where Esc leads back to Scale
DrawUpdateEscBack(self, msg) ==
    IF msg.kind # "Key"
    THEN self
    ELSE LET cursor == DrawCursor(self, msg.code)
             w == DrawWorld(self, msg.code)
         IN  IF cursor = Panic \/ w = Panic
             THEN Panic
             ELSE IF msg.code = "Enter"
             THEN SimulateState(0, w)
             ELSE IF msg.code = "Esc"
             THEN ScaleState(w.width, w.height, TRUE)
             ELSE DrawState(cursor.value[1], cursor.value[2], w)

\* Draw::update handing over the next generation on Enter
DrawUpdateTickOnEnter(self, msg) ==
    IF msg.kind # "Key"
    THEN self
    ELSE LET cursor == DrawCursor(self, msg.code)
             w == DrawWorld(self, msg.code)
         IN  IF cursor = Panic \/ w = Panic
             THEN Panic
             ELSE IF msg.code = "Enter"
             THEN SimulateState(0, tick(w))
             ELSE DrawState(cursor.value[1], cursor.value[2], w)

DrawUpdate(self, msg) ==
    IF msg.kind # "Key"
    THEN self
    ELSE LET cursor == DrawCursor(self, msg.code)
             w == DrawWorld(self, msg.code)
         IN  IF cursor = Panic \/ w = Panic
             THEN Panic
             ELSE IF msg.code = "Enter"
             THEN SimulateState(0, w)
             ELSE DrawState(cursor.value[1], cursor.value[2], w)

\* Simulate::update advancing on key presses only
SimulateUpdateKeyOnly(self, msg) ==
    IF msg.kind # "Key"
    THEN self
    ELSE LET w == tick(self.world)
         IN  IF w = Panic THEN Panic ELSE SimulateState(self.generation + 1, w)

\* Simulate::update advancing the world by two generations at a time
SimulateUpdateTwice(self, msg) ==
    LET w == tick(self.world)
        ww == IF w = Panic THEN Panic ELSE tick(w)
    IN  IF ww = Panic THEN Panic ELSE SimulateState(self.generation + 1, ww)

SimulateUpdate(self, msg) ==
    LET w == tick(self.world)
    IN  IF w = Panic THEN Panic ELSE SimulateState(self.generation + 1, w)

\* State::update without its test for Ctrl + c
StateUpdateNoQuit(self, msg) ==
    LET next == CASE self.tag = "Scale" -> ScaleUpdate(self, msg)
                  [] self.tag = "Draw" -> DrawUpdate(self, msg)
                  [] self.tag = "Simulate" -> SimulateUpdate(self, msg)
    IN  IF next = Panic THEN Panic ELSE Some(next)

\* State::update: None (exit), Some(State), or Panic
StateUpdate(self, msg) ==
    IF IsCtrlC(msg)
    THEN None
    ELSE LET next == CASE self.tag = "Scale" -> ScaleUpdate(self, msg)
                       [] self.tag = "Draw" -> DrawUpdate(self, msg)
                       [] self.tag = "Simulate" -> SimulateUpdate(self, msg)
         IN  IF next = Panic THEN Panic ELSE Some(next)

\* State::display panics: the unwrap of Draw::display on the cell under the
\* cursor
DisplayPanics(self) ==
    self.tag = "Draw" /\ get(self.world, <<self.x, self.y>>) = None

\* one pass of the loop of App::run on `self` with the event `msg`: what
\* the loop goes on with (a State), Exit after process::exit, or Panic
RunOnce(self, msg) ==
    IF DisplayPanics(self)
    THEN Panic
    ELSE LET r == StateUpdate(self, msg)
         IN  IF r = Panic THEN Panic ELSE IF r = None THEN Exit ELSE Unwrap(r)

---------------------------------------------------------------------------
(* Spec: the session.  One action per variant of State that the loop of    *)
(* App::run finds itself in.                                               *)

\* the States within the bounds of the model
WithinBounds(s) ==
    CASE s.tag = "Scale" -> s.width <= MaxScale /\ s.height <= MaxScale
      [] s.tag = "Draw" ->
            s.world.width <= MaxDrawWidth /\ s.world.height <= MaxDrawHeight
      [] s.tag = "Simulate" -> s.generation <= MaxGeneration
      [] OTHER -> TRUE

\* the grid engine's variables, at rest during a session
WorldIdle ==
    /\ world = WorldNew(0, 0)
    /\ prev = WorldNew(0, 0)
    /\ first = WorldNew(0, 0)
    /\ ticks = 0
    /\ call = NoCall
    /\ ret = None

\* the four keys that Scale::update resizes on
Directions == {"Up", "Down", "Left", "Right"}

\* the size a direction key leads to, as the four rules give it
Resized(width, height, code) ==
    CASE code = "Up" -> <<width, Max(height - 1, 1)>>
      [] code = "Down" -> <<width, height + 1>>
      [] code = "Left" -> <<Max(width - 1, 1), height>>
      [] code = "Right" -> <<width + 1, height>>

\* the history after a pass of the loop took `self` to `next` on `msg`: the
\* size that Scale held when it was left, the World that Draw held when it
\* was left, the number of passes that took Simulate to Simulate, and the
\* four resize rules folded over the direction keys that Scale was given
HistAfter(h, self, msg, next) ==
    [size |-> IF self.tag = "Scale" /\ next.tag = "Draw"
              THEN <<self.width, self.height>>
              ELSE h.size,
     handed |-> IF self.tag = "Draw" /\ next.tag = "Simulate"
                THEN self.world
                ELSE h.handed,
     passes |-> IF self.tag = "Simulate" /\ next.tag = "Simulate"
                THEN h.passes + 1
                ELSE h.passes,
     fold |-> IF self.tag = "Scale" /\ msg.kind = "Key"
                    /\ msg.code \in Directions
              THEN Resized(h.fold[1], h.fold[2], msg.code)
              ELSE h.fold]

Init ==
    /\ state = ScaleState(DefaultWidth, DefaultHeight, TRUE)
    /\ old = [tag |-> "Idle"]
    /\ message = NoEvent
    /\ hist = [NoHist EXCEPT !.fold = <<DefaultWidth, DefaultHeight>>]
    /\ WorldIdle

\* one pass of the loop of App::run, with any of the messages
Loop ==
    /\ \E msg \in Messages :
        LET next == RunOnce(state, msg)
        IN  /\ WithinBounds(next)
            /\ state' = next
            /\ message' = msg
            /\ hist' = HistAfter(hist, state, msg, next)
    /\ old' = state
    /\ UNCHANGED worldVars

RunScale ==
    /\ state.tag = "Scale"
    /\ Loop

RunDraw ==
    /\ state.tag = "Draw"
    /\ Loop

RunSimulate ==
    /\ state.tag = "Simulate"
    /\ Loop

Next == RunScale \/ RunDraw \/ RunSimulate

Spec == Init /\ [][Next]_vars

---------------------------------------------------------------------------
(* Claims about the grid engine, under SpecWorld *)

\* the cell the data model stores at column p[1] of row p[2] (row-major)
CellAt(w, p) == w.cells[p[2] * w.width + p[1] + 1]

OnGrid(w, x, y) == 0 <= x /\ x < w.width /\ 0 <= y /\ y < w.height

\* C1: on a grid of width, height >= 1, get((x, y)) is None iff x >= width
\* or y >= height, and otherwise it is the cell at column x of row y.
C1_GetNoneIffOutside ==
    (call.op = "get" /\ world.width >= 1 /\ world.height >= 1) =>
        LET x == call.pos[1]
            y == call.pos[2]
        IN  /\ (ret = None) <=> (x >= world.width \/ y >= world.height)
            /\ OnGrid(world, x, y) => ret = Some(CellAt(world, call.pos))

\* C2: has_live_neighbor(pos, offset) is false when pos + offset is off the
\* grid in any direction, and otherwise true exactly when that cell is Alive.
C2_NeighborOffGridIsFalse ==
    call.op = "has_live_neighbor" =>
        LET nx == call.pos[1] + offset(call.position)[1]
            ny == call.pos[2] + offset(call.position)[2]
        IN  ret = (IF OnGrid(world, nx, ny)
                   THEN CellAt(world, <<nx, ny>>) = "Alive"
                   ELSE FALSE)

\* C3: every cell of tick() follows Conway's rule on the neighbour counts of
\* the generation that tick() was given, none on a cell already updated.
C3_TickFromSnapshot ==
    (call.op = "tick" /\ ret # Panic) =>
        \A p \in InBounds(prev) :
            (CellAt(ret, p) = "Alive") <=>
                \/ CellAt(prev, p) = "Alive" /\ live_neighbors(prev, p) \in {2, 3}
                \/ CellAt(prev, p) = "Dead" /\ live_neighbors(prev, p) = 3

\* a tick() returned, after which a crowded cell died and a cell was born
C3_Witness ==
    /\ call.op = "tick"
    /\ ret # Panic
    /\ \E p \in InBounds(prev) :
        /\ CellAt(prev, p) = "Alive"
        /\ live_neighbors(prev, p) >= 4
        /\ CellAt(ret, p) = "Dead"
    /\ \E p \in InBounds(prev) :
        CellAt(prev, p) = "Dead" /\ CellAt(ret, p) = "Alive"

\* C4: tick() returns a grid for every grid, one of width or height 0
\* included, and the grid it returns has the width and height it was given.
C4_TickTotalSameDimensions ==
    call.op = "tick" =>
        /\ ret # Panic
        /\ ret.width = prev.width
        /\ ret.height = prev.height

\* the Worlds at least 3 wide that hold one 2x2 block and are Dead elsewhere
IsBlockWorld(w) ==
    /\ w.width >= 3
    /\ w.height >= 2
    /\ \E ox \in 0..(w.width - 2), oy \in 0..(w.height - 2) :
        w = Placed(w.width, w.height, BlockCells, ox, oy)

\* C5: a grid that is Dead but for one 2x2 block, wherever the block lies,
\* is returned unchanged by tick().
C5_BlockIsStill ==
    (call.op = "tick" /\ IsBlockWorld(prev)) => ret = prev

\* C6: the glider, placed on the GliderDim x GliderDim grid so that it stays
\* off the border, is after 4 ticks the same shape one column and one row on,
\* every other cell Dead; until then no cell of the border is Alive.
C6_GliderMovesDiagonally ==
    (first.width = GliderDim /\ first.height = GliderDim) =>
    \A ox \in GliderOrigins, oy \in GliderOrigins :
        first = Placed(GliderDim, GliderDim, GliderCells, ox, oy) =>
            /\ ticks <= 4 =>
                /\ ~Panicked
                /\ \A p \in InBounds(world) :
                    (p[1] \in {0, GliderDim - 1} \/ p[2] \in {0, GliderDim - 1})
                        => CellAt(world, p) = "Dead"
            /\ ticks = 4 =>
                world = Placed(GliderDim, GliderDim, GliderCells, ox + 1, oy + 1)

\* the fourth tick() of a glider World returned
C6_Witness ==
    /\ first \in GliderWorlds
    /\ ticks = 4
    /\ call.op = "tick"
    /\ ret = world
    /\ world # first

---------------------------------------------------------------------------
(* Claims about the session, under Spec.  In every state reached by a pass *)
(* of the loop, that pass took `old` and `message` to `state`.             *)

Modes == {"Scale", "Draw", "Simulate"}

\* C7: in each of the three modes, whatever the mode holds, Ctrl + c makes
\* State::update return None, and nothing of the mode's own update is done:
\* the session ends there.
C7_CtrlCExits ==
    /\ IsCtrlC(message) => state = Exit
    /\ state.tag \in Modes =>
        \A msg \in Messages : IsCtrlC(msg) => StateUpdate(state, msg) = None

\* Ctrl + c ended a simulation that had run for a generation
C7_Witness ==
    /\ old.tag = "Simulate"
    /\ old.generation >= 1
    /\ IsCtrlC(message)
    /\ state = Exit

ModeRank(tag) ==
    CASE tag = "Scale" -> 0
      [] tag = "Draw" -> 1
      [] tag = "Simulate" -> 2

IsEnter(msg) == msg.kind = "Key" /\ msg.code = "Enter"

\* C8: the session starts in Scale; a pass of the loop changes the mode only
\* from Scale to Draw on Enter and from Draw to Simulate on Enter, keeps it on
\* every other message but Ctrl + c, and never leads back to an earlier mode.
C8_ModeOnlyForward ==
    /\ state.tag = "Scale"
    /\ [][ (state.tag \in Modes /\ ~IsCtrlC(message')) =>
                /\ state'.tag \in Modes
                /\ ModeRank(state'.tag) >= ModeRank(state.tag)
                /\ state'.tag # state.tag =>
                    /\ IsEnter(message')
                    /\ <<state.tag, state'.tag>> \in
                            {<<"Scale", "Draw">>, <<"Draw", "Simulate">>}
                /\ (~IsEnter(message')) => state'.tag = state.tag
         ]_vars

\* Enter led from Scale on, Enter led from Draw on, and Enter in Simulate
\* kept the mode
C8_Witness ==
    /\ old.tag = "Simulate"
    /\ IsEnter(message)
    /\ state.tag = "Simulate"
    /\ state.generation = 2

\* C9: in Scale, width and height are at least 1 after any messages; Up at
\* height 1 leaves height 1 and Left at width 1 leaves width 1, and neither
\* subtraction overflows.
C9_ScaleAtLeastOne ==
    /\ state.tag = "Scale" => state.width >= 1 /\ state.height >= 1
    /\ old.tag = "Scale" => state # Panic
    /\ (old.tag = "Scale" /\ message = Key("Up", FALSE) /\ old.height = 1) =>
            state.tag = "Scale" /\ state.height = 1
    /\ (old.tag = "Scale" /\ message = Key("Left", FALSE) /\ old.width = 1) =>
            state.tag = "Scale" /\ state.width = 1

\* Up was pressed in the 1 x 1 Scale
C9_Witness ==
    /\ old.tag = "Scale"
    /\ old.height = 1
    /\ old.width = 1
    /\ message = Key("Up", FALSE)
    /\ state.tag = "Scale"
    /\ state.height = 1

\* C10: in Draw the cursor is on the grid after any messages, so that the
\* lookup of the cell under it succeeds; Right at the last column, Down at
\* the last row and Left or Up at 0 leave the coordinate where it is.
C10_CursorOnGrid ==
    /\ state.tag = "Draw" =>
        /\ state.x < state.world.width
        /\ state.y < state.world.height
        /\ ~DisplayPanics(state)
    /\ old.tag = "Draw" => state # Panic
    /\ (old.tag = "Draw" /\ state.tag = "Draw" /\ message.kind = "Key") =>
        /\ (message.code = "Right" /\ old.x = old.world.width - 1) =>
                state.x = old.world.width - 1
        /\ (message.code = "Down" /\ old.y = old.world.height - 1) =>
                state.y = old.world.height - 1
        /\ (message.code = "Left" /\ old.x = 0) => state.x = 0
        /\ (message.code = "Up" /\ old.y = 0) => state.y = 0

\* Right was pressed with the cursor in the last of several columns
C10_Witness ==
    /\ old.tag = "Draw"
    /\ old.world.width >= 2
    /\ old.x = old.world.width - 1
    /\ message = Key("Right", FALSE)
    /\ state.tag = "Draw"
    /\ state.x = old.x

\* C11: Enter in a Scale of w x h leads to Draw with a grid of width w and
\* height h, whose w * h cells are all Dead, and the cursor at (0, 0).
C11_EnterBuildsDeadGrid ==
    (old.tag = "Scale" /\ IsEnter(message)) =>
        /\ state.tag = "Draw"
        /\ state.x = 0 /\ state.y = 0
        /\ state.world.width = old.width
        /\ state.world.height = old.height
        /\ Len(state.world.cells) = old.width * old.height
        /\ \A n \in 1..(old.width * old.height) : state.world.cells[n] = "Dead"

\* Enter was pressed in a Scale that Left and Up had brought to 2 x 1
C11_Witness ==
    /\ old.tag = "Scale"
    /\ old.width = 2
    /\ old.height = 1
    /\ IsEnter(message)
    /\ state.tag = "Draw"

\* C12: Enter in Draw leads to Simulate at generation 0 with the grid of
\* Draw as it was, cell for cell: no tick, no toggle.
C12_EnterHandsGridOver ==
    (old.tag = "Draw" /\ IsEnter(message)) =>
        /\ state.tag = "Simulate"
        /\ state.generation = 0
        /\ state.world = old.world

\* Enter was pressed in a Draw with a cell Alive and the cursor moved
C12_Witness ==
    /\ old.tag = "Draw"
    /\ old.x = 1
    /\ \E n \in DOMAIN old.world.cells : old.world.cells[n] = "Alive"
    /\ IsEnter(message)
    /\ state.tag = "Simulate"

\* C13: in Simulate every message but Ctrl + c (a key, an event that is no
\* key, no event at all) advances one generation: the grid becomes tick() of
\* the grid and generation grows by 1; so generation is the number of such
\* passes since Simulate was entered, from 0 on.
C13_EveryMessageTicks ==
    /\ (old.tag = "Simulate" /\ ~IsCtrlC(message)) =>
        /\ state.tag = "Simulate"
        /\ state.generation = old.generation + 1
        /\ state.world = tick(old.world)
    /\ state.tag = "Simulate" => state.generation = hist.passes

\* the poll timed out in Simulate, and the second generation differs from
\* the first
C13_Witness ==
    /\ old.tag = "Simulate"
    /\ message = NoEvent
    /\ state.tag = "Simulate"
    /\ state.generation = 2
    /\ state.world # old.world

\* the cell of World w under the cursor of the Draw state s
UnderCursor(s, w) == w.cells[s.y * w.width + s.x + 1]

\* C14: Space in Draw flips the cell under the cursor, Dead to Alive and Alive
\* to Dead, and a second Space with the cursor on the same cell brings that
\* cell and with it the whole grid back.
C14_ToggleRoundTrip ==
    (old.tag = "Draw" /\ message.kind = "Key" /\ message.code = "Space") =>
        /\ state.tag = "Draw"
        /\ state.x = old.x /\ state.y = old.y
        /\ UnderCursor(old, old.world) = "Dead" =>
                UnderCursor(old, state.world) = "Alive"
        /\ UnderCursor(old, old.world) = "Alive" =>
                UnderCursor(old, state.world) = "Dead"
        /\ DrawUpdate(state, message) # Panic
        /\ DrawUpdate(state, message).world = old.world

\* Space brought a cell away from the origin to life, next to a live one
C14_Witness ==
    /\ old.tag = "Draw"
    /\ message = Key("Space", FALSE)
    /\ state.tag = "Draw"
    /\ old.x = 1
    /\ UnderCursor(old, old.world) = "Dead"
    /\ UnderCursor(old, state.world) = "Alive"
    /\ old.world.cells[1] = "Alive"

\* C15: on a World with every cell Dead, of width and height at least 1,
\* live_neighbors is 0 at every position of the grid; on every World and
\* every position of its grid, live_neighbors is the number of the 8
\* Positions for which has_live_neighbor is true, and lies between 0 and 8.
C15_LiveNeighborsCounts ==
    call.op = "live_neighbors" =>
        /\ ret = Cardinality({ k \in DOMAIN PositionAll :
                    has_live_neighbor(world, call.pos, PositionAll[k]) })
        /\ ret \in 0..8
        /\ world = WorldNew(world.width, world.height) => ret = 0

\* the middle cell of a 3x3 World with all eight neighbours Alive
C15_Witness ==
    /\ call.op = "live_neighbors"
    /\ call.pos = <<1, 1>>
    /\ world.width = 3 /\ world.height = 3
    /\ ret = 8

\* C16: after a pass that stays in Scale, updated is true exactly when the
\* message was the key Up, Down, Left or Right; after every other message
\* (no event, an event that is no key, another key) the state is Scale with
\* width and height as before and updated false.
C16_UpdatedIffDirection ==
    (old.tag = "Scale" /\ state.tag = "Scale") =>
        /\ state.updated <=> (message.kind = "Key" /\ message.code \in Directions)
        /\ ~(message.kind = "Key" /\ message.code \in Directions) =>
            /\ state.width = old.width
            /\ state.height = old.height
            /\ ~state.updated

\* C17: in Scale each direction key changes one dimension and leaves the
\* other: Up makes height max(height - 1, 1), Down height + 1, Left makes
\* width max(width - 1, 1), Right width + 1; every size reached from 8x8 is
\* so the fold of these rules over the keys pressed.
C17_DirectionsResize ==
    /\ (old.tag = "Scale" /\ message.kind = "Key" /\ message.code \in Directions
        /\ ~IsCtrlC(message)) =>
        /\ state.tag = "Scale"
        /\ <<state.width, state.height>>
                = Resized(old.width, old.height, message.code)
        /\ message.code \in {"Up", "Down"} => state.width = old.width
        /\ message.code \in {"Left", "Right"} => state.height = old.height
    /\ state.tag = "Scale" => <<state.width, state.height>> = hist.fold

\* Up on a Scale of height 1, after Left took the width below 8
C17_Witness ==
    /\ old.tag = "Scale"
    /\ message = Key("Up", FALSE)
    /\ old.height = 1 /\ old.width = 7
    /\ state.tag = "Scale"
    /\ state.height = 1 /\ state.width = 7

\* C18: iterating a World of width and height at least 1 yields its
\* width * height cells in row-major order, y ascending and within it x
\* ascending, every position of the grid once and with the cell stored
\* there, and ends after them.
C18_IterationRowMajor ==
    (call.op = "next" /\ world.width >= 1 /\ world.height >= 1) =>
        /\ ret.tag = "Iter"
        /\ Len(ret.items) <= world.width * world.height
        /\ ret.ended => Len(ret.items) = world.width * world.height
        /\ \A n \in DOMAIN ret.items :
            /\ ret.items[n].position
                    = <<(n - 1) % world.width, (n - 1) \div world.width>>
            /\ ret.items[n].position \in InBounds(world)
            /\ Some(ret.items[n].state) = get(world, ret.items[n].position)
            /\ \A m \in DOMAIN ret.items :
                    ret.items[m].position = ret.items[n].position => m = n
        /\ ret.ended =>
                { ret.items[n].position : n \in DOMAIN ret.items }
                    = InBounds(world)

\* the iteration of a 3x2 World with an Alive cell in its second row ended
C18_Witness ==
    /\ call.op = "next"
    /\ world.width = 3 /\ world.height = 2
    /\ ret.tag = "Iter"
    /\ ret.ended
    /\ Len(ret.items) = 6
    /\ ret.items[5] = [position |-> <<1, 1>>, state |-> "Alive"]

\* how far apart two coordinates are
Dist(a, b) == IF a >= b THEN a - b ELSE b - a

\* a message that neither Scale nor Draw has an arm for and that does not quit
Unrecognised(msg) ==
    /\ ~IsCtrlC(msg)
    /\ msg.kind = "Key" => msg.code \notin Directions \cup {"Enter", "Space"}

\* C19: in Draw, Space changes the one cell under the cursor and leaves every
\* other cell, the dimensions and the cursor; a direction key changes at most
\* one coordinate of the cursor, by at most 1, and leaves the grid; no event,
\* an event that is no key and a key without an arm leave cursor and grid, as
\* in Scale they leave width and height.
C19_DrawFrame ==
    /\ (old.tag = "Draw" /\ message = Key("Space", FALSE)) =>
        /\ state.tag = "Draw"
        /\ state.x = old.x /\ state.y = old.y
        /\ state.world.width = old.world.width
        /\ state.world.height = old.world.height
        /\ DOMAIN state.world.cells = DOMAIN old.world.cells
        /\ \A n \in DOMAIN old.world.cells :
            (state.world.cells[n] # old.world.cells[n])
                <=> (n = old.y * old.world.width + old.x + 1)
    /\ (old.tag = "Draw" /\ message.kind = "Key" /\ message.code \in Directions) =>
        /\ state.tag = "Draw"
        /\ state.world = old.world
        /\ Dist(state.x, old.x) + Dist(state.y, old.y) <= 1
    /\ (old.tag = "Draw" /\ Unrecognised(message)) => state = old
    /\ (old.tag = "Scale" /\ Unrecognised(message)) =>
        /\ state.tag = "Scale"
        /\ state.width = old.width
        /\ state.height = old.height

\* Space away from the origin, on a grid of four cells with another one Alive
C19_Witness ==
    /\ old.tag = "Draw"
    /\ message = Key("Space", FALSE)
    /\ state.tag = "Draw"
    /\ old.x = 1 /\ old.y = 1
    /\ old.world.width = 2 /\ old.world.height = 2
    /\ old.world.cells[2] = "Alive"
    /\ state.world.cells[4] # old.world.cells[4]

\* tick() applied n times to the World w
RECURSIVE TickTimes(_, _)
TickTimes(w, n) ==
    IF n = 0
    THEN w
    ELSE LET before == TickTimes(w, n - 1)
         IN  IF before = Panic THEN Panic ELSE tick(before)

\* C20: in every Draw and Simulate state the grid has the width and height
\* that Scale held when Enter was pressed and width * height cells, and in
\* Simulate at generation n the grid is tick() applied n times to the grid
\* that Draw handed over.
C20_ShapeFrozen ==
    /\ state.tag \in {"Draw", "Simulate"} =>
        /\ state.world.width = hist.size[1]
        /\ state.world.height = hist.size[2]
        /\ Len(state.world.cells) = hist.size[1] * hist.size[2]
    /\ state.tag = "Simulate" =>
        state.world = TickTimes(hist.handed, state.generation)

\* the second generation of a 2x1 grid that was handed over with a live cell
C20_Witness ==
    /\ state.tag = "Simulate"
    /\ state.generation = 2
    /\ hist.size = <<2, 1>>
    /\ hist.handed.cells[2] = "Alive"
    /\ state.world # hist.handed

=============================================================================
